---- MODULE Spec2Model ----
(***************************************************************************)
(* The circle detection service of viam-hough-transform: configuration     *)
(* validation (HoughConfig.Validate), construction of the service, the     *)
(* detection pipeline vesselCircles (filter by radius, remap by the crop   *)
(* origin, rank by radius), the formatter formatDetections and the         *)
(* service handlers Detections, DetectionsFromCamera and                   *)
(* CaptureAllFromCamera.                                                   *)
(*                                                                         *)
(* An image is represented by what the circle detector                     *)
(* (gocv.HoughCirclesWithParams) finds on its cropped buffer: a sequence   *)
(* of candidates (x, y, r) of 32-bit floats.  A float is represented by    *)
(* the integer that counts its halves (35 is 17.5), so that the            *)
(* conversion int(f) of the code is a real truncation.                     *)
(***************************************************************************)
EXTENDS Integers, Sequences, FiniteSets, TLC

\* ------------------------------------------------------------------ bounds

\* the longest candidate list the detector reports
MaxCands == 3

\* the number of distinct values rand.Int()%1000 takes in the model
MaxRand == 1

\* --------------------------------------------------------------- constants

\* detection.go:19 "circles with radii smaller than this will be ignored"
circleRThreshold == 18

\* ------------------------------------------------------------------ values

\* Go's int(f) of a float: truncation toward zero; f counts halves
Trunc(f) == IF f >= 0 THEN f \div 2 ELSE -((-f) \div 2)

\* image.Pt
Pt(x, y) == [X |-> x, Y |-> y]

\* image.Point.Add
Add(p, q) == [X |-> p.X + q.X, Y |-> p.Y + q.Y]

\* image.Rectangle
Rect(x0, y0, x1, y1) == [Min |-> Pt(x0, y0), Max |-> Pt(x1, y1)]

\* a nil pointer, nil slice, nil interface: the empty sequence; a non-nil
\* pointer to v: <<v>>
Nil == <<>>

\* the nil error
NoErr == "nil"

\* the crop rectangles of the configurations explored; the first is the one
\* of TestHough1
Crops == {Rect(115, 0, 600, 440), Rect(8, 6, 328, 246)}

\* the values of a float64 field of the configuration: unset (0) and set
FloatVals == {0, 1}

\* the values of min_radius and of max_radius
MinRadiusVals == {0, 10, 40}

MaxRadiusVals == {0, 30, 50}

\* the camera names
CameraNames == {"", "cam"}

\* HoughConfig
HoughConfigs ==
    [CameraName : CameraNames,
     Dp : {-1, 0, 1}, MinDist : FloatVals, Param1 : FloatVals, Param2 : FloatVals,
     MinRadius : MinRadiusVals, MaxRadius : MaxRadiusVals,
     Crop : {Nil} \cup {<<c>> : c \in Crops},
     SkipBlur : BOOLEAN]

\* ---------------------------------------------------------------- Validate

\* Validate without its check of min_radius
ValidateNoMinRadius(cfg) ==
    IF cfg.CameraName = "" THEN [deps |-> Nil, err |-> "expected camera_name"]
    ELSE IF cfg.Dp <= 0 THEN [deps |-> Nil, err |-> "dp needs to be set (def 1)"]
    ELSE IF cfg.MinDist <= 0 THEN [deps |-> Nil, err |-> "min_dist needs to be set (def 8)"]
    ELSE IF cfg.Param1 <= 0 THEN [deps |-> Nil, err |-> "param1 needs to be set (def 60)"]
    ELSE IF cfg.Param2 <= 0 THEN [deps |-> Nil, err |-> "param2 needs to be set (def 25)"]
    ELSE IF cfg.MaxRadius <= 0 THEN [deps |-> Nil, err |-> "max_radius needs to be set (def 50)"]
    ELSE [deps |-> <<cfg.CameraName>>, err |-> NoErr]

\* HoughConfig.Validate: the implicit dependencies and the error
Validate(cfg) ==
    IF cfg.CameraName = "" THEN [deps |-> Nil, err |-> "expected camera_name"]
    ELSE IF cfg.Dp <= 0 THEN [deps |-> Nil, err |-> "dp needs to be set (def 1)"]
    ELSE IF cfg.MinDist <= 0 THEN [deps |-> Nil, err |-> "min_dist needs to be set (def 8)"]
    ELSE IF cfg.Param1 <= 0 THEN [deps |-> Nil, err |-> "param1 needs to be set (def 60)"]
    ELSE IF cfg.Param2 <= 0 THEN [deps |-> Nil, err |-> "param2 needs to be set (def 25)"]
    ELSE IF cfg.MinRadius <= 0 THEN [deps |-> Nil, err |-> "min_radius needs to be set (def 35)"]
    ELSE IF cfg.MaxRadius <= 0 THEN [deps |-> Nil, err |-> "max_radius needs to be set (def 50)"]
    ELSE [deps |-> <<cfg.CameraName>>, err |-> NoErr]

\* ------------------------------------------------------------ the detector

\* a candidate of the detector: circles.GetVecfAt(0, i), three floats
Vecf(x, y, r) == [x |-> x, y |-> y, r |-> r]

\* the candidates found on the images explored, each at a centre of its own:
\* (10.5, 20.0) r 17.5; (20.5, 6.5) r 18.0; (40.0, 40.5) r 18.5;
\* (60.5, 30.0) r 19.5; (80.0, 80.0) r 45.0
RawCandidates ==
    {Vecf(21, 40, 35), Vecf(41, 13, 36), Vecf(80, 81, 37), Vecf(121, 60, 39),
     Vecf(160, 160, 90)}

\* the radii gocv.HoughCirclesWithParams reports lie between minRadius and
\* maxRadius; nothing is assumed of it when minRadius exceeds maxRadius
InRadiusRange(hc, r) ==
    IF hc.MinRadius <= hc.MaxRadius
    THEN 2 * hc.MinRadius <= r /\ r <= 2 * hc.MaxRadius
    ELSE TRUE

\* the candidates the detector may report under a configuration
Candidates(hc) == {c \in RawCandidates : InRadiusRange(hc, c.r)}

\* the sequences over S of length at most n
SeqsUpTo(S, n) == UNION {[1..k -> S] : k \in 0..n}

\* minDist > 0 keeps the centres of the reported candidates apart: no two
\* candidates of a list share a centre
CentresApart(s) ==
    \A i, j \in DOMAIN s : i # j => (s[i].x # s[j].x \/ s[i].y # s[j].y)

\* gocv.HoughCirclesWithParams: the candidate lists it may write to circles,
\* in any order
HoughCirclesWithParams(hc) == {s \in SeqsUpTo(Candidates(hc), MaxCands) : CentresApart(s)}

\* the non-nil images: an image is the candidate list the detector finds on it
Images(hc) == {<<cands>> : cands \in HoughCirclesWithParams(hc)}

\* ------------------------------------------------------------ vesselCircles

\* Circle{center, radius}
Circle(center, radius) == [center |-> center, radius |-> radius]

\* the threshold test off by one: a radius equal to the threshold is dropped
belowThresholdInclusive(radius) == radius <= circleRThreshold

\* detection.go:122 "if radius < circleRThreshold { continue }"
belowThreshold(radius) == radius < circleRThreshold

\* the remapping left out: the centre stays in cropped-buffer coordinates
remapCenterDropped(center, hc) == center

\* detection.go:129-132: the crop origin is added whenever a crop is set
remapCenter(center, hc) ==
    IF hc.Crop # Nil THEN Add(center, hc.Crop[1].Min) ELSE center

\* detection.go:118-135: the loop over the candidates, from candidate i on
RECURSIVE goodCirclesFrom(_, _, _)
goodCirclesFrom(circles, hc, i) ==
    IF i > Len(circles) THEN <<>>
    ELSE LET circle == circles[i]
             center == Pt(Trunc(circle.x), Trunc(circle.y))
             radius == Trunc(circle.r)
         IN  IF belowThreshold(radius)
             THEN goodCirclesFrom(circles, hc, i + 1)
             ELSE <<Circle(remapCenter(center, hc), radius)>>
                      \o goodCirclesFrom(circles, hc, i + 1)

\* a comparison that also holds between equal radii
lessByRadiusOrEqual(a, b) == a.radius >= b.radius

\* the comparison reversed: the sort ranks by increasing radius
lessByRadiusAscending(a, b) == a.radius < b.radius

\* detection.go:145: the less function of the sort
lessByRadius(a, b) == a.radius > b.radius

\* an exchange that overwrites position i and leaves position j as it was
SwapOverwrite(s, i, j) == [s EXCEPT ![i] = s[j]]

\* s with the elements at i and j exchanged
Swap(s, i, j) == [s EXCEPT ![i] = s[j], ![j] = s[i]]

\* the inner loop of the insertion sort: element j sinks while it is less
\* than its left neighbour
RECURSIVE insertOne(_, _)
insertOne(s, j) ==
    IF j > 1 /\ lessByRadius(s[j], s[j - 1])
    THEN insertOne(Swap(s, j, j - 1), j - 1)
    ELSE s

\* the outer loop of the insertion sort, from element i on
RECURSIVE insertionSortFrom(_, _)
insertionSortFrom(s, i) ==
    IF i > Len(s) THEN s ELSE insertionSortFrom(insertOne(s, i), i + 1)

\* detection.go:144-146 sort.Slice(goodCircles, less): on a slice this short
\* the library sorts by insertion
sortSlice(s) == insertionSortFrom(s, 2)

\* what vesselCircles returns and does: the circles, the error, whether it
\* panicked, the files it wrote
VesselResult(circles, err, panic, wrote) ==
    [circles |-> circles, err |-> err, panic |-> panic, wrote |-> wrote]

\* a variant that lets a failed gocv.IMWrite pass
saveErrorIgnored(ok) == NoErr

\* the error of an "if ok := gocv.IMWrite(...); !ok" test
saveError(ok) == IF ok THEN NoErr ELSE "failed to save the output image"

\* a variant that hands back the circles found so far together with the error
saveFailurePartial(goodCircles, wrote) ==
    VesselResult(goodCircles, "failed to save the output image", FALSE, wrote)

\* return nil, errors.New("failed to save the output image"), after the files
\* in wrote were written
saveFailure(goodCircles, wrote) ==
    VesselResult(Nil, "failed to save the output image", FALSE, wrote)

\* a variant that writes blurred.jpg whatever the flags are
blurredFilesAlways(hc, outputBlur) == {"blurred.jpg"}

\* the file the blur step writes: blurred.jpg, when the blur is not skipped
\* and outputBlur is set
blurredFiles(hc, outputBlur) ==
    IF ~hc.SkipBlur /\ outputBlur THEN {"blurred.jpg"} ELSE {}

\* cropImage(src, crop) on pixel buffers: without a crop the result is src
\* itself, with a crop a new RGBA buffer that draw.Draw fills from src
cropImage(src, crop) ==
    IF crop = Nil THEN [buf |-> src, written |-> {}]
    ELSE [buf |-> "croppedImg", written |-> {"croppedImg"}]

\* a variant whose matrix shares the pixels of the image it is given
imageToMatShared(img) == [buf |-> img, written |-> {}]

\* imageToMat(img): a new matrix, filled pixel by pixel from img.At
imageToMat(img) == [buf |-> "mat", written |-> {"mat"}]

\* the pixel buffers vesselCircles writes when handed the buffer src showing the
\* candidates cands: the crop, the matrix, gray (CvtColor, MedianBlur), the
\* detector's output, and the matrix again when gocv.Circle draws on it
writtenBuffers(src, cands, hc, outputBlur, outputResults, blurOK) ==
    LET croppedImg == cropImage(src, hc.Crop)
        mat == imageToMat(croppedImg.buf)
        early == blurredFiles(hc, outputBlur) # {} /\ saveError(blurOK) # NoErr
        drawn == IF /\ ~early
                    /\ outputResults # ""
                    /\ \E i \in DOMAIN cands : ~belowThreshold(Trunc(cands[i].r))
                 THEN {mat.buf} ELSE {}
    IN  croppedImg.written \cup mat.written \cup {"gray"}
            \cup (IF early THEN {} ELSE {"circles"}) \cup drawn

\* vesselCircles(img, hc, outputBlur, outputResults); blurOK and resultOK are
\* the outcomes of the two gocv.IMWrite calls
vesselCircles(img, hc, outputBlur, outputResults, blurOK, resultOK) ==
    IF img = Nil THEN VesselResult(Nil, NoErr, TRUE, {})
    ELSE IF blurredFiles(hc, outputBlur) # {} /\ saveError(blurOK) # NoErr
    THEN saveFailure(<<>>, {})
    ELSE LET blurred == blurredFiles(hc, outputBlur)
             goodCircles == goodCirclesFrom(img[1], hc, 1)
         IN  IF outputResults # "" /\ saveError(resultOK) # NoErr
             THEN saveFailure(goodCircles, blurred)
             ELSE VesselResult(sortSlice(goodCircles), NoErr, FALSE,
                               blurred \cup (IF outputResults # "" THEN {outputResults} ELSE {}))

\* --------------------------------------------------------- formatDetections

\* the confidence formatDetections gives every detection (part_004:200)
detectionScore == 1

\* strconv.Itoa of one decimal digit
Digit(d) ==
    CASE d = 0 -> "0" [] d = 1 -> "1" [] d = 2 -> "2" [] d = 3 -> "3" [] d = 4 -> "4"
      [] d = 5 -> "5" [] d = 6 -> "6" [] d = 7 -> "7" [] d = 8 -> "8" [] d = 9 -> "9"

\* strconv.Itoa of a natural number
RECURSIVE Itoa(_)
Itoa(n) == IF n < 10 THEN Digit(n) ELSE Itoa(n \div 10) \o Digit(n % 10)

\* objdet.NewDetection(rect, score, label)
NewDetection(rect, score, label) == [box |-> rect, score |-> score, label |-> label]

\* the box of half the radius on each side
formatOneHalfRadius(i, c) ==
    LET minX == c.center.X - (c.radius \div 2)
        maxX == c.center.X + (c.radius \div 2)
        minY == c.center.Y - (c.radius \div 2)
        maxY == c.center.Y + (c.radius \div 2)
        rect == [Min |-> Pt(minX, minY), Max |-> Pt(maxX, maxY)]
        name == "circle-" \o Itoa(i)
    IN  NewDetection(rect, detectionScore, name)

\* a confidence graded by the radius of the circle
formatOneGraded(i, c) ==
    LET rect == [Min |-> Pt(c.center.X - c.radius, c.center.Y - c.radius),
                 Max |-> Pt(c.center.X + c.radius, c.center.Y + c.radius)]
    IN  NewDetection(rect, c.radius, "circle-" \o Itoa(i))

\* the body of the loop of formatDetections for the circle c at 0-based index i
formatOne(i, c) ==
    LET minX == c.center.X - c.radius
        maxX == c.center.X + c.radius
        minY == c.center.Y - c.radius
        maxY == c.center.Y + c.radius
        rect == [Min |-> Pt(minX, minY), Max |-> Pt(maxX, maxY)]
        name == "circle-" \o Itoa(i)
    IN  NewDetection(rect, detectionScore, name)

\* the labels counted from 1
formatDetectionsOneBased(circles) == [k \in 1..Len(circles) |-> formatOne(k, circles[k])]

\* formatDetections: one detection per circle, appended in order
formatDetections(circles) == [k \in 1..Len(circles) |-> formatOne(k - 1, circles[k])]

\* --------------------------------------------------------------- the files

\* the name CaptureAllFromCamera gives its output file:
\* fmt.Sprintf("output-%d.jpg", rand.Int()%1000)
TempName(n) == "output-" \o Itoa(n) \o ".jpg"

\* the values rand.Int()%1000 takes in the model
RandVals == 0..(MaxRand - 1)

\* the files of the working directory the service opens or removes; a file
\* that is only ever written (blurred.jpg, the output of TestHough1) is
\* recorded in the wrote field of the call that writes it
FileNames == {"output.jpg"} \cup {TempName(n) : n \in RandVals}

\* a file is absent, or holds an image written before the running invocation
\* ("stale"), or holds an image written by the running invocation ("fresh")
FileStates == {"absent", "stale", "fresh"}

\* the files after gocv.IMWrite wrote the files named in wrote
WriteFiles(files, wrote) == [f \in DOMAIN files |-> IF f \in wrote THEN "fresh" ELSE files[f]]

\* the files after os.Remove(name)
RemoveFile(files, name) == [f \in DOMAIN files |-> IF f = name THEN "absent" ELSE files[f]]

\* openImage(fn): the name given is not used, "output.jpg" is opened and decoded
openImage(fn, files) ==
    IF files["output.jpg"] = "absent"
    THEN [img |-> "none", err |-> "open output.jpg: no such file or directory"]
    ELSE [img |-> files["output.jpg"], err |-> NoErr]

\* ---------------------------------------------------------------- handlers

\* the values an entry of the extra map may hold
ExtraVals ==
    {[type |-> "bool", b |-> TRUE], [type |-> "bool", b |-> FALSE], [type |-> "string", b |-> FALSE]}

\* the extra maps: without the key "addOffset" (Nil), or with a value under it
Extras == {Nil} \cup {<<v>> : v \in ExtraVals}

\* map[string]interface{}{"addOffset": b}
ExtraOf(b) == <<[type |-> "bool", b |-> b]>>

\* what a handler returns and does
Response(detections, err, panic, image, circles, ran, wrote) ==
    [detections |-> detections, err |-> err, panic |-> panic, image |-> image,
     circles |-> circles, ran |-> ran, wrote |-> wrote]

\* no handler has been called, or the last call has returned to its caller
NoResponse == Response(Nil, NoErr, FALSE, "none", Nil, FALSE, {})

\* a variant that falls back to "no offset" when extra does not say
DetectionsDefaultOffset(img, extra, hc) ==
    LET v == vesselCircles(img, hc, FALSE, "", TRUE, TRUE)
    IN  IF v.panic THEN Response(Nil, NoErr, TRUE, "none", Nil, FALSE, {})
        ELSE IF v.err # NoErr THEN Response(Nil, v.err, FALSE, "none", v.circles, TRUE, v.wrote)
        ELSE Response(formatDetections(v.circles), NoErr, FALSE, "none", v.circles, TRUE, v.wrote)

\* a variant that treats an image without a circle as an error
DetectionsNoneIsError(img, extra, hc) ==
    LET ok == extra # Nil /\ extra[1].type = "bool"
        v == vesselCircles(img, hc, FALSE, "", TRUE, TRUE)
    IN  IF ~ok
        THEN Response(Nil, "we do not know if we should add an offset", FALSE, "none", Nil, FALSE, {})
        ELSE IF v.panic THEN Response(Nil, NoErr, TRUE, "none", Nil, FALSE, {})
        ELSE IF v.err # NoErr THEN Response(Nil, v.err, FALSE, "none", v.circles, TRUE, v.wrote)
        ELSE IF v.circles = <<>> THEN Response(Nil, "no circle found", FALSE, "none", v.circles, TRUE, v.wrote)
        ELSE Response(formatDetections(v.circles), NoErr, FALSE, "none", v.circles, TRUE, v.wrote)

\* myHoughTransformer.Detections(ctx, img, extra) of the service configured by hc
Detections(img, extra, hc) ==
    LET ok == extra # Nil /\ extra[1].type = "bool"
        addOffset == IF ok THEN extra[1].b ELSE FALSE
        \* vesselCircles(img, h.conf, addOffset, false, ""): vesselCircles takes
        \* no offset flag, addOffset reaches nothing
        v == vesselCircles(img, hc, FALSE, "", TRUE, TRUE)
    IN  IF ~ok
        THEN Response(Nil, "we do not know if we should add an offset", FALSE, "none", Nil, FALSE, {})
        ELSE IF v.panic THEN Response(Nil, NoErr, TRUE, "none", Nil, FALSE, {})
        ELSE IF v.err # NoErr THEN Response(Nil, v.err, FALSE, "none", v.circles, TRUE, v.wrote)
        ELSE Response(formatDetections(v.circles), NoErr, FALSE, "none", v.circles, TRUE, v.wrote)

\* a named image of the camera
NamedImage(name, img) == [SourceName |-> name, Image |-> img]

\* h.cam.Images(ctx): an error, or a list of named images
CamResult(images, err) == [images |-> images, err |-> err]

\* the loop of getImage: the last image named "color" of images[i..], or colorImg
RECURSIVE lastColor(_, _, _)
lastColor(images, i, colorImg) ==
    IF i > Len(images) THEN colorImg
    ELSE lastColor(images, i + 1,
                   IF images[i].SourceName = "color" THEN images[i].Image ELSE colorImg)

\* myHoughTransformer.getImage
getImage(cam) ==
    IF cam.err # NoErr THEN [img |-> Nil, err |-> cam.err]
    ELSE [img |-> lastColor(cam.images, 1, Nil), err |-> NoErr]

\* myHoughTransformer.DetectionsFromCamera
DetectionsFromCamera(cam, hc) ==
    LET g == getImage(cam)
    IN  IF g.err # NoErr THEN Response(Nil, g.err, FALSE, "none", Nil, FALSE, {})
        ELSE Detections(g.img, ExtraOf(TRUE), hc)

\* myHoughTransformer.CaptureAllFromCamera; n is rand.Int()%1000, resultOK the
\* outcome of gocv.IMWrite; the response holds the files after the call
CaptureAllFromCamera(cam, hc, n, resultOK, fs) ==
    LET g == getImage(cam)
        output == TempName(n)
        \* vesselCircles(colorImg, h.conf, false, false, output)
        v == vesselCircles(g.img, hc, FALSE, output, TRUE, resultOK)
        written == WriteFiles(fs, v.wrote)
        o == openImage(output, written)
    IN  IF g.err # NoErr
        THEN [resp |-> Response(Nil, g.err, FALSE, "none", Nil, FALSE, {}), files |-> fs]
        ELSE IF v.panic
        THEN [resp |-> Response(Nil, NoErr, TRUE, "none", Nil, FALSE, {}), files |-> fs]
        ELSE IF v.err # NoErr
        THEN [resp |-> Response(Nil, v.err, FALSE, "none", v.circles, TRUE, v.wrote), files |-> written]
        ELSE IF o.err # NoErr
        THEN [resp |-> Response(Nil, o.err, FALSE, "none", v.circles, TRUE, v.wrote), files |-> written]
        ELSE [resp |-> Response(formatDetections(v.circles), NoErr, FALSE, o.img, v.circles, TRUE, v.wrote),
              files |-> RemoveFile(written, output)]

\* ------------------------------------------------------------- the service

VARIABLES
    conf,       \* the HoughConfig of the service
    svc,        \* "unvalidated", "rejected", "validated", "failed", "ready"
    validated,  \* what Validate returned: [deps, err]
    pc,         \* "idle": no call is running; "done": a handler has returned
    call,       \* the running call: [op, addOffset, img]
    resp,       \* what the handler of the running call returned and did
    files,      \* the files of the working directory: name -> FileStates
    env,        \* what the running call was given and met: the extra map, the
                \* answer of the camera, rand.Int()%1000, the diagnostic flags
                \* and the outcomes of gocv.IMWrite
    inv,        \* concurrent invocations of CaptureAllFromCamera: goroutine ->
                \* how far it got and what it holds
    disk        \* concurrent invocations: file name -> "absent", "old" (written
                \* before either invocation) or the goroutine that wrote it

vars == <<conf, svc, validated, pc, call, resp, files, env, inv, disk>>

\* the inputs and the environment of a call
Env(extra, cam, n, outputBlur, outputResults, blurOK, resultOK) ==
    [extra |-> extra, cam |-> cam, n |-> n, outputBlur |-> outputBlur,
     outputResults |-> outputResults, blurOK |-> blurOK, resultOK |-> resultOK]

NoEnv == Env(Nil, CamResult(Nil, NoErr), 0, FALSE, "", TRUE, TRUE)

\* the output paths a caller inside the package gives vesselCircles: none, or
\* the one of TestHough1
OutputPaths == {"", "a1-output.jpg"}

\* the goroutines that run CaptureAllFromCamera side by side
Threads == {"t1", "t2"}

Other(t) == IF t = "t1" THEN "t2" ELSE "t1"

\* an invocation of CaptureAllFromCamera on the service configured by hc: the
\* statement it has reached, its colour image, its output path, what it will
\* return, and whether it wrote, opened or removed a file the other goroutine
\* had written
Invocation(at, hc, img, output, detections, image, err, touched) ==
    [at |-> at, hc |-> hc, img |-> img, output |-> output, detections |-> detections,
     image |-> image, err |-> err, touched |-> touched]

NoInvocation(hc) == Invocation("start", hc, Nil, "", Nil, "none", NoErr, FALSE)

\* the call of handler op that hands vesselCircles the image img; addOffset is
\* the offset flag the caller of vesselCircles passes
Call(op, addOffset, img) == [op |-> op, addOffset |-> addOffset, img |-> img]

NoCall == Call("none", FALSE, Nil)

\* what h.cam.Images may return: an error, images without a colour image, or a
\* colour image and a depth image
CamResults(hc) ==
    {CamResult(Nil, "camera error"), CamResult(<<NamedImage("depth", <<Nil>>)>>, NoErr)}
        \cup {CamResult(<<NamedImage("color", img), NamedImage("depth", <<Nil>>)>>, NoErr) :
                  img \in Images(hc)}

Init ==
    /\ conf \in HoughConfigs
    /\ svc = "unvalidated"
    /\ validated = [deps |-> Nil, err |-> NoErr]
    /\ pc = "idle"
    /\ call = NoCall
    /\ resp = NoResponse
    /\ \E old \in {"absent", "stale"} :
           files = [f \in FileNames |-> IF f = "output.jpg" THEN old ELSE "absent"]
    /\ env = NoEnv
    /\ inv = [t \in Threads |-> NoInvocation(conf)]
    /\ disk = [f \in FileNames |-> "absent"]

\* the host validates the configuration before it builds the service
DoValidate ==
    /\ svc = "unvalidated"
    /\ validated' = Validate(conf)
    /\ svc' = IF validated'.err = NoErr THEN "validated" ELSE "rejected"
    /\ UNCHANGED <<conf, pc, call, resp, files, env, inv, disk>>

\* newHoughTransformer: camera.FromDependencies finds the camera or fails
Construct ==
    /\ svc = "validated"
    /\ \E found \in BOOLEAN : svc' = IF found THEN "ready" ELSE "failed"
    /\ UNCHANGED <<conf, validated, pc, call, resp, files, env, inv, disk>>

\* a client calls Detections with an image and an extra map
CallDetections ==
    /\ svc = "ready" /\ pc = "idle"
    /\ \E img \in Images(conf), extra \in Extras :
           /\ resp' = Detections(img, extra, conf)
           /\ call' = Call("Detections",
                           extra # Nil /\ extra[1].type = "bool" /\ extra[1].b, img)
           /\ env' = Env(extra, NoEnv.cam, 0, FALSE, "", TRUE, TRUE)
    /\ pc' = "done"
    /\ UNCHANGED <<conf, svc, validated, files, inv, disk>>

\* a client calls DetectionsFromCamera
CallDetectionsFromCamera ==
    /\ svc = "ready" /\ pc = "idle"
    /\ \E cam \in CamResults(conf) :
           /\ resp' = DetectionsFromCamera(cam, conf)
           /\ call' = Call("DetectionsFromCamera", TRUE, getImage(cam).img)
           /\ env' = Env(ExtraOf(TRUE), cam, 0, FALSE, "", TRUE, TRUE)
    /\ pc' = "done"
    /\ UNCHANGED <<conf, svc, validated, files, inv, disk>>

\* a client calls CaptureAllFromCamera
CallCaptureAllFromCamera ==
    /\ svc = "ready" /\ pc = "idle"
    /\ \E cam \in CamResults(conf), n \in RandVals, resultOK \in BOOLEAN :
           LET r == CaptureAllFromCamera(cam, conf, n, resultOK, files)
           IN  /\ resp' = r.resp
               /\ files' = r.files
               /\ call' = Call("CaptureAllFromCamera", FALSE, getImage(cam).img)
               /\ env' = Env(Nil, cam, n, FALSE, TempName(n), TRUE, resultOK)
    /\ pc' = "done"
    /\ UNCHANGED <<conf, svc, validated, inv, disk>>

\* a caller inside the package (TestHough1) calls vesselCircles with its own
\* diagnostic flags
CallVesselCircles ==
    /\ svc = "ready" /\ pc = "idle"
    /\ \E img \in Images(conf), outputBlur \in BOOLEAN, outputResults \in OutputPaths :
       \E blurOK \in (IF ~conf.SkipBlur /\ outputBlur THEN BOOLEAN ELSE {TRUE}),
          resultOK \in (IF outputResults # "" THEN BOOLEAN ELSE {TRUE}) :
           LET v == vesselCircles(img, conf, outputBlur, outputResults, blurOK, resultOK)
           IN  /\ resp' = Response(Nil, v.err, v.panic, "none", v.circles, TRUE, v.wrote)
               /\ files' = WriteFiles(files, v.wrote)
               /\ call' = Call("vesselCircles", FALSE, img)
               /\ env' = Env(Nil, NoEnv.cam, 0, outputBlur, outputResults, blurOK, resultOK)
    /\ pc' = "done"
    /\ UNCHANGED <<conf, svc, validated, inv, disk>>

\* the caller takes the response; what the call wrote and left is now old
Return ==
    /\ pc = "done"
    /\ pc' = "idle"
    /\ call' = NoCall
    /\ resp' = NoResponse
    /\ env' = NoEnv
    /\ files' = [f \in DOMAIN files |-> IF files[f] = "fresh" THEN "stale" ELSE files[f]]
    /\ UNCHANGED <<conf, svc, validated, inv, disk>>

Next ==
    \/ DoValidate
    \/ Construct
    \/ CallDetections
    \/ CallDetectionsFromCamera
    \/ CallCaptureAllFromCamera
    \/ CallVesselCircles
    \/ Return

Spec == Init /\ [][Next]_vars

\* ------------------------------------------- two invocations side by side

\* the configurations of the two services that run side by side: they differ
\* in the crop
ConcConfigs ==
    {c \in HoughConfigs :
         Validate(c).err = NoErr /\ c.MinRadius = 10 /\ c.MaxRadius = 30 /\ ~c.SkipBlur}

\* the colour images of the two invocations: no candidate, or one
ConcImages(hc) == {<<(<<>>)>>} \cup {<<(<<c>>)>> : c \in Candidates(hc)}

\* two services with their own configurations share the working directory of
\* the process; output.jpg may be there from before
InitConc ==
    /\ \E h1, h2 \in ConcConfigs :
           /\ h1 # h2
           /\ conf = h1
           /\ inv = [t \in Threads |-> NoInvocation(IF t = "t1" THEN h1 ELSE h2)]
    /\ svc = "ready"
    /\ validated = Validate(conf)
    /\ pc = "idle"
    /\ call = NoCall
    /\ resp = NoResponse
    /\ env = NoEnv
    /\ \E old \in {"absent", "stale"} :
           files = [f \in FileNames |-> IF f = "output.jpg" THEN old ELSE "absent"]
    /\ disk = [f \in FileNames |-> IF files[f] = "stale" THEN "old" ELSE "absent"]

\* part_004:136: colorImg, err := h.getImage(ctx), the camera supplies a
\* colour image
ConcGetImage(t) ==
    /\ inv[t].at = "start"
    /\ \E img \in ConcImages(inv[t].hc) :
           inv' = [inv EXCEPT ![t].at = "got", ![t].img = img]
    /\ UNCHANGED <<conf, svc, validated, pc, call, resp, files, env, disk>>

\* part_004:143: output := fmt.Sprintf("output-%d.jpg", rand.Int()%1000)
ConcName(t) ==
    /\ inv[t].at = "got"
    /\ \E n \in RandVals :
           inv' = [inv EXCEPT ![t].at = "named", ![t].output = TempName(n)]
    /\ UNCHANGED <<conf, svc, validated, pc, call, resp, files, env, disk>>

\* part_004:145-150: vesselCircles writes the annotated image to output, the
\* circles are formatted
ConcVesselCircles(t) ==
    /\ inv[t].at = "named"
    /\ LET v == vesselCircles(inv[t].img, inv[t].hc, FALSE, inv[t].output, TRUE, TRUE)
       IN  /\ inv' = [inv EXCEPT ![t].at = "detected",
                                  ![t].detections = formatDetections(v.circles),
                                  ![t].touched = @ \/ disk[inv[t].output] = Other(t)]
           /\ disk' = [f \in DOMAIN disk |-> IF f \in v.wrote THEN t ELSE disk[f]]
    /\ UNCHANGED <<conf, svc, validated, pc, call, resp, files, env>>

\* part_004:152-155: openImage(output) opens "output.jpg"; the call returns
\* the error when that fails
ConcOpenImage(t) ==
    /\ inv[t].at = "detected"
    /\ inv' = IF disk["output.jpg"] = "absent"
              THEN [inv EXCEPT ![t].at = "returned", ![t].detections = Nil,
                               ![t].err = "open output.jpg: no such file or directory"]
              ELSE [inv EXCEPT ![t].at = "opened", ![t].image = disk["output.jpg"],
                               ![t].touched = @ \/ disk["output.jpg"] = Other(t)]
    /\ UNCHANGED <<conf, svc, validated, pc, call, resp, files, env, disk>>

\* part_004:157-162: os.Remove(output), then the return of image and
\* detections
ConcRemove(t) ==
    /\ inv[t].at = "opened"
    /\ inv' = [inv EXCEPT ![t].at = "returned",
                          ![t].touched = @ \/ disk[inv[t].output] = Other(t)]
    /\ disk' = [disk EXCEPT ![inv[t].output] = "absent"]
    /\ UNCHANGED <<conf, svc, validated, pc, call, resp, files, env>>

NextConc ==
    \E t \in Threads :
        \/ ConcGetImage(t)
        \/ ConcName(t)
        \/ ConcVesselCircles(t)
        \/ ConcOpenImage(t)
        \/ ConcRemove(t)

SpecConc == InitConc /\ [][NextConc]_vars

\* ------------------------------------------------------------------ claims

\* vesselCircles ran on an image and returned circles without an error
Returned == pc = "done" /\ resp.ran /\ resp.err = NoErr /\ call.img # Nil

\* the raw candidates the detector found on the image of the running call
raw == call.img[1]

\* the circles vesselCircles returned to the running call
circles == resp.circles

\* the detections the handler of the running call returned
detections == resp.detections

\* a handler formatted the circles vesselCircles returned to it
Formatted == Returned /\ call.op # "vesselCircles"

\* the number of positions of s that satisfy Test
CountIf(s, Test(_)) == Cardinality({i \in DOMAIN s : Test(s[i])})

\* the truncated centre of a raw candidate, moved by off
CentreOf(c, off) == Pt(Trunc(c.x) + off.X, Trunc(c.y) + off.Y)

\* circle k is raw candidate c, in cropped-buffer coordinates or moved by the
\* crop origin
CameFrom(k, c) ==
    /\ k.radius = Trunc(c.r)
    /\ \/ k.center = CentreOf(c, Pt(0, 0))
       \/ conf.Crop # Nil /\ k.center = CentreOf(c, conf.Crop[1].Min)

\* s holds, with the same multiplicities, the candidates of radius at least 18
\* of the running call, truncated and moved by off
SameCirclesAs(s, off) ==
    /\ Len(s) = CountIf(raw, LAMBDA c : Trunc(c.r) >= 18)
    /\ \A j \in DOMAIN s :
           CountIf(s, LAMBDA k : k = s[j])
               = CountIf(raw, LAMBDA c : Trunc(c.r) >= 18
                                          /\ Circle(CentreOf(c, off), Trunc(c.r)) = s[j])

\* C1: vesselCircles keeps a candidate if and only if its truncated radius is
\* at least 18, whatever min_radius and max_radius are (17 is dropped, 18 and
\* 19 are kept), so every returned circle has radius at least 18.
C1_RadiusFloor ==
    Returned =>
        /\ \A j \in DOMAIN circles : circles[j].radius >= 18
        /\ \A i \in DOMAIN raw :
               (Trunc(raw[i].r) >= 18) <=> (\E j \in DOMAIN circles : CameFrom(circles[j], raw[i]))

\* a call under min_radius 10 whose image shows radii 17.5, 18.0 and 19.5:
\* two circles come back
C1_Witness ==
    /\ Returned
    /\ conf.MinRadius = 10
    /\ {Trunc(raw[i].r) : i \in DOMAIN raw} = {17, 18, 19}
    /\ {circles[j].radius : j \in DOMAIN circles} = {18, 19}

\* C2: the circles vesselCircles returns are in non-increasing order of radius,
\* whatever the order of the candidates.
C2_NonIncreasing ==
    Returned => \A i \in 1..(Len(circles) - 1) : circles[i].radius >= circles[i + 1].radius

\* candidates found in increasing order of radius come back in decreasing order
C2_Witness ==
    /\ Returned
    /\ Len(raw) = MaxCands
    /\ \A i \in 1..(Len(raw) - 1) : 18 <= Trunc(raw[i].r) /\ Trunc(raw[i].r) < Trunc(raw[i + 1].r)
    /\ Len(circles) = MaxCands
    /\ circles[1].radius > circles[Len(circles)].radius

\* C3: with a crop region of origin (ox, oy) and the offset requested, every
\* returned centre is the centre found on the cropped buffer plus (ox, oy),
\* with the radius unchanged; without a crop region the centres are those found.
C3_Remap ==
    Returned =>
        /\ (conf.Crop # Nil /\ call.addOffset) => SameCirclesAs(circles, conf.Crop[1].Min)
        /\ conf.Crop = Nil => SameCirclesAs(circles, Pt(0, 0))

\* DetectionsFromCamera under the crop of origin (8, 6): the candidate at
\* (20.5, 6.5) of radius 18.0 comes back at (28, 12) with radius 18
C3_Witness ==
    /\ Returned
    /\ call.op = "DetectionsFromCamera" /\ call.addOffset
    /\ conf.Crop # Nil /\ conf.Crop[1].Min = Pt(8, 6)
    /\ \E i \in DOMAIN raw : raw[i] = Vecf(41, 13, 36)
    /\ \E j \in DOMAIN circles : circles[j] = Circle(Pt(28, 12), 18)

\* C4: the offset flag decides the coordinate space: with a crop region and the
\* flag false the returned centres are those found on the cropped buffer, and
\* the crop origin is added only when the flag is true.
C4_FlagDecides ==
    (Returned /\ conf.Crop # Nil) =>
        IF call.addOffset
        THEN SameCirclesAs(circles, conf.Crop[1].Min)
        ELSE SameCirclesAs(circles, Pt(0, 0))

\* C5: the bounding box of the detection of a circle (cx, cy, r) is
\* min = (cx - r, cy - r), max = (cx + r, cy + r): a square of side 2r centred
\* at the centre of the circle.
C5_BoundingBox ==
    Formatted =>
        \A i \in DOMAIN detections :
            LET c == circles[i]
                b == detections[i].box
            IN  /\ b.Min = Pt(c.center.X - c.radius, c.center.Y - c.radius)
                /\ b.Max = Pt(c.center.X + c.radius, c.center.Y + c.radius)
                /\ b.Max.X - b.Min.X = 2 * c.radius
                /\ b.Max.Y - b.Min.Y = 2 * c.radius

\* the circle (80, 80) of radius 45 is formatted as the box (35, 35)-(125, 125)
C5_Witness ==
    /\ Formatted
    /\ \E i \in DOMAIN detections :
           /\ circles[i] = Circle(Pt(80, 80), 45)
           /\ detections[i].box = Rect(35, 35, 125, 125)

\* the labels of the first detections, in order
ExpectedLabels == <<"circle-0", "circle-1", "circle-2", "circle-3", "circle-4", "circle-5">>

\* C6: formatDetections maps the ranked circles position by position: as many
\* detections as circles, the i-th detection built from the i-th circle and
\* labelled "circle-" followed by its 0-based position.
C6_PositionByPosition ==
    Formatted =>
        /\ Len(detections) = Len(circles)
        /\ \A i \in DOMAIN detections :
               /\ detections[i].label = ExpectedLabels[i]
               /\ detections[i].box.Min.X + detections[i].box.Max.X = 2 * circles[i].center.X
               /\ detections[i].box.Min.Y + detections[i].box.Max.Y = 2 * circles[i].center.Y
               /\ detections[i].box.Max.X - detections[i].box.Min.X = 2 * circles[i].radius

\* a full list of circles of distinct centres is formatted; the last detection
\* carries the last label
C6_Witness ==
    /\ Formatted
    /\ Len(circles) = MaxCands
    /\ Len(detections) = MaxCands
    /\ detections[1].label = "circle-0"
    /\ detections[MaxCands].label = ExpectedLabels[MaxCands]
    /\ detections[1].box # detections[MaxCands].box

\* C7: the returned circles are, as a multiset, the raw candidates of radius at
\* least 18: as many circles as such candidates, none dropped or duplicated and
\* no radius changed by filtering, remapping and ranking.
C7_SameMultiset ==
    Returned =>
        /\ Len(circles) = CountIf(raw, LAMBDA c : Trunc(c.r) >= 18)
        /\ \A v \in ({circles[j].radius : j \in DOMAIN circles}
                     \cup {Trunc(raw[i].r) : i \in DOMAIN raw}) :
               CountIf(circles, LAMBDA k : k.radius = v)
                   = CountIf(raw, LAMBDA c : Trunc(c.r) = v /\ v >= 18)
        /\ \A i \in DOMAIN raw :
               Trunc(raw[i].r) >= 18 =>
                   CountIf(circles, LAMBDA k : CameFrom(k, raw[i])) = 1

\* two candidates of radius 18 (18.0 and 18.5), one of 17.5: the sort has to
\* move circles and two circles of radius 18 come back
C7_Witness ==
    /\ Returned
    /\ Len(raw) = 3
    /\ Trunc(raw[1].r) = 17 /\ Trunc(raw[2].r) = 18 /\ raw[3].r = 90
    /\ Len(circles) = 2
    /\ circles[1].radius = 45 /\ circles[2].radius = 18

\* C8: every detection carries the same fixed confidence, whatever the radius,
\* the centre and the rank of its circle.
C8_FixedConfidence ==
    Formatted =>
        /\ \A i, j \in DOMAIN detections : detections[i].score = detections[j].score
        /\ \A i \in DOMAIN detections : detections[i].score = 1

\* detections of circles of different radius, centre and rank, same confidence
C8_Witness ==
    /\ Formatted
    /\ Len(detections) >= 2
    /\ circles[1].radius # circles[2].radius
    /\ circles[1].center # circles[2].center
    /\ detections[1].score = detections[2].score

\* a configuration Validate has to reject: no camera name, or a numeric field
\* that is not positive
Unset(cfg) ==
    \/ cfg.CameraName = ""
    \/ cfg.Dp <= 0 \/ cfg.MinDist <= 0 \/ cfg.Param1 <= 0 \/ cfg.Param2 <= 0
    \/ cfg.MinRadius <= 0 \/ cfg.MaxRadius <= 0

\* C9: validation returns an error and no dependency list when camera_name is
\* empty or one of dp, min_dist, param1, param2, min_radius, max_radius is not
\* positive, and it does so before any image is fetched or processed.
C9_InvalidConfig ==
    (svc # "unvalidated" /\ Unset(conf)) =>
        /\ validated.err # NoErr
        /\ validated.deps = Nil
        /\ svc = "rejected"
        /\ pc = "idle" /\ call = NoCall /\ resp = NoResponse

\* min_radius = 0, every other field set: rejected
C9_Witness ==
    /\ svc = "rejected"
    /\ conf.MinRadius = 0
    /\ conf.CameraName = "cam" /\ conf.Dp > 0 /\ conf.MinDist > 0 /\ conf.Param1 > 0
    /\ conf.Param2 > 0 /\ conf.MaxRadius > 0
    /\ validated.err = "min_radius needs to be set (def 35)"
    /\ validated.deps = Nil

\* C10: validation rejects every configuration in which min_radius exceeds
\* max_radius, also when every numeric field is positive and camera_name is set.
C10_RejectsMinAboveMax ==
    (svc # "unvalidated" /\ conf.MinRadius > conf.MaxRadius) =>
        validated.err # NoErr /\ svc = "rejected"

\* the camera answered without an error and none of its images is named "color"
NoColorImage ==
    /\ pc = "done"
    /\ call.op \in {"DetectionsFromCamera", "CaptureAllFromCamera"}
    /\ env.cam.err = NoErr
    /\ \A i \in DOMAIN env.cam.images : env.cam.images[i].SourceName # "color"

\* C11: when none of the images of the camera is named "color",
\* DetectionsFromCamera and CaptureAllFromCamera return an error and hand no
\* missing image to the detector.
C11_ImageUnavailable ==
    NoColorImage => resp.err # NoErr /\ ~resp.panic

\* vesselCircles ran on an image and a gocv.IMWrite of it failed
WriteFailed ==
    /\ pc = "done"
    /\ call.op \in {"vesselCircles", "CaptureAllFromCamera"}
    /\ call.img # Nil
    /\ ~env.blurOK \/ ~env.resultOK

C13_NoPartialList ==
    pc = "done" =>
        /\ resp.err = "failed to save the output image" => circles = Nil
        /\ resp.err # NoErr => detections = Nil /\ resp.image = "none"

\* CaptureAllFromCamera on an image that shows a circle of radius 18 or more,
\* the annotated image cannot be written: an error and nothing else
C13_Witness ==
    /\ pc = "done"
    /\ call.op = "CaptureAllFromCamera"
    /\ call.img # Nil
    /\ \E i \in DOMAIN raw : Trunc(raw[i].r) >= 18
    /\ ~env.resultOK
    /\ resp.err # NoErr
    /\ circles = Nil /\ detections = Nil

\* the detector ran on an image on which it finds no candidate of radius 18 or
\* more
NothingToReport ==
    /\ pc = "done"
    /\ resp.ran
    /\ call.img # Nil
    /\ \A i \in DOMAIN raw : Trunc(raw[i].r) < 18

\* C14: when the detector finds no candidate, or only candidates of radius
\* below 18, vesselCircles returns no circle and no error, and Detections and
\* DetectionsFromCamera return zero detections and no error.
C14_NothingIsNoError ==
    /\ (NothingToReport /\ call.op \in {"Detections", "DetectionsFromCamera"}) =>
           resp.err = NoErr /\ ~resp.panic /\ circles = <<>> /\ detections = <<>>
    /\ (NothingToReport /\ ~WriteFailed) => circles = <<>> /\ detections = <<>>
    /\ (NothingToReport /\ call.op = "vesselCircles" /\ ~WriteFailed) => resp.err = NoErr

\* Detections on an image whose only candidate has radius 17.5
C14_Witness ==
    /\ NothingToReport
    /\ call.op = "Detections"
    /\ Len(raw) = 1 /\ Trunc(raw[1].r) = 17
    /\ resp.err = NoErr
    /\ detections = <<>>

\* the position, in the detector's output, of the candidate circle k came from
RawIndex(k) == CHOOSE i \in DOMAIN raw : CameFrom(k, raw[i])

\* the position, in the detector's output, of the candidate detection d frames
DetectionIndex(d) ==
    CHOOSE i \in DOMAIN raw :
        CameFrom(Circle(Pt((d.box.Min.X + d.box.Max.X) \div 2, (d.box.Min.Y + d.box.Max.Y) \div 2),
                        (d.box.Max.X - d.box.Min.X) \div 2), raw[i])

\* C15: the detections are fixed by the candidate sequence and the
\* configuration, ties included: circles of equal radius come out in the order
\* the detector listed them, and every detection carries the label of its
\* position, so two invocations on the same candidates return the same
\* sequence.
C15_TiesInCandidateOrder ==
    /\ Returned =>
           \A j, k \in DOMAIN circles :
               (j < k /\ circles[j].radius = circles[k].radius) =>
                   RawIndex(circles[j]) < RawIndex(circles[k])
    /\ Formatted =>
           \A j, k \in DOMAIN detections :
               (j < k /\ circles[j].radius = circles[k].radius) =>
                   /\ DetectionIndex(detections[j]) < DetectionIndex(detections[k])
                   /\ detections[j].label = ExpectedLabels[j]
                   /\ detections[k].label = ExpectedLabels[k]

\* the two candidates of radius 18 after one of radius 19, the one at (40, 40)
\* listed before the one at (20, 6): it is "circle-1", the other "circle-2"
C15_Witness ==
    /\ Formatted
    /\ conf.Crop = Nil
    /\ Len(raw) = 3
    /\ Trunc(raw[1].r) = 18 /\ Trunc(raw[1].x) = 40
    /\ Trunc(raw[2].r) = 18 /\ Trunc(raw[2].x) = 20
    /\ Trunc(raw[3].r) = 19
    /\ circles[2].center = Pt(40, 40) /\ circles[3].center = Pt(20, 6)
    /\ detections[2].label = "circle-1" /\ detections[3].label = "circle-2"

\* the pixel buffers the running call of vesselCircles wrote, its image being
\* the buffer "img"
Written == writtenBuffers("img", raw, conf, env.outputBlur, env.outputResults, env.blurOK)

\* C16: vesselCircles never writes the image it is given, with or without a
\* crop and with or without an annotated output: it writes only the buffers it
\* made itself.
C16_InputUntouched ==
    (pc = "done" /\ resp.ran /\ call.img # Nil) =>
        /\ "img" \notin Written
        /\ Written \subseteq {"croppedImg", "mat", "gray", "circles"}

\* no crop, an annotated output is asked for and a circle is drawn: the drawing
\* lands on the matrix
C16_Witness ==
    /\ pc = "done" /\ resp.ran /\ call.img # Nil
    /\ conf.Crop = Nil
    /\ env.outputResults # ""
    /\ resp.err = NoErr
    /\ Len(circles) > 0
    /\ Written = {"mat", "gray", "circles"}

\* Detections was called with an extra map that has no "addOffset" key, or a
\* value under it that is not a boolean
BadExtra ==
    /\ pc = "done"
    /\ call.op = "Detections"
    /\ env.extra = Nil \/ env.extra[1].type # "bool"

\* C18: Detections called without "addOffset", or with a non-boolean under it,
\* returns an error and no detections and does not run the detector; it never
\* proceeds with a default offset choice.
C18_RejectsBadExtra ==
    BadExtra =>
        /\ resp.err = "we do not know if we should add an offset"
        /\ detections = Nil
        /\ ~resp.ran /\ ~resp.panic
        /\ circles = Nil /\ resp.wrote = {}

\* a string under "addOffset", on an image that shows a circle of radius 18 or
\* more: rejected, nothing detected
C18_Witness ==
    /\ BadExtra
    /\ env.extra # Nil
    /\ call.img # Nil
    /\ \E i \in DOMAIN raw : Trunc(raw[i].r) >= 18
    /\ resp.err # NoErr
    /\ detections = Nil /\ ~resp.ran

\* the circles vesselCircles returns for the image and the configuration of the
\* running call when no diagnostic output is asked for
PlainCircles == vesselCircles(call.img, conf, FALSE, "", TRUE, TRUE).circles

\* C19: the diagnostic outputs are a side channel: when the writes succeed,
\* vesselCircles returns the circles it returns without any diagnostic output,
\* whatever the output path and the blur-output flag are; and with an empty
\* path and the flag unset it writes no file.
C19_SideChannel ==
    (pc = "done" /\ resp.ran /\ call.img # Nil) =>
        /\ resp.err = NoErr => circles = PlainCircles
        /\ (env.outputResults = "" /\ ~env.outputBlur) => resp.wrote = {}
        /\ resp.wrote \subseteq {"blurred.jpg", env.outputResults}

\* a direct call that writes both blurred.jpg and the annotated output and
\* returns two circles or more
C19_Witness ==
    /\ pc = "done" /\ resp.ran /\ call.img # Nil
    /\ call.op = "vesselCircles"
    /\ env.outputBlur /\ env.outputResults = "a1-output.jpg"
    /\ resp.err = NoErr
    /\ resp.wrote = {"blurred.jpg", "a1-output.jpg"}
    /\ Len(circles) >= 2
    /\ circles = PlainCircles

\* C20: the image CaptureAllFromCamera returns is the annotated image this
\* invocation wrote, read back from the path it gave vesselCircles, not a file
\* an earlier invocation left.
C20_ReadsOwnOutput ==
    (pc = "done" /\ call.op = "CaptureAllFromCamera" /\ call.img # Nil /\ resp.err = NoErr) =>
        resp.image = "fresh"

\* what the invocation of goroutine t returns when it runs alone in the
\* working directory as it was before either invocation
Alone(t) ==
    CaptureAllFromCamera(CamResult(<<NamedImage("color", inv[t].img)>>, NoErr),
                         inv[t].hc, 0, TRUE, files).resp

\* C17: two invocations of CaptureAllFromCamera on services of different
\* configurations, run side by side, share nothing: neither writes, opens or
\* removes a file the other wrote, and each returns what it returns alone.
C17_NoSharedState ==
    \A t \in Threads :
        /\ ~inv[t].touched
        /\ inv[t].at = "returned" =>
               /\ inv[t].detections = Alone(t).detections
               /\ inv[t].err = Alone(t).err
               /\ (inv[t].image = "none") <=> (Alone(t).image = "none")

\* CaptureAllFromCamera has returned after it ran vesselCircles on an image
CaptureReturned ==
    /\ pc = "done"
    /\ call.op = "CaptureAllFromCamera"
    /\ call.img # Nil
    /\ resp.ran

\* C21: when CaptureAllFromCamera returns, with its result or with an error
\* that follows the detector run, the temporary output file this invocation
\* wrote is gone: no file of the call is left in the working directory.
C21_TempFileRemoved ==
    CaptureReturned =>
        /\ files[TempName(env.n)] # "fresh"
        /\ \A f \in DOMAIN files : files[f] # "fresh"

====
